---- MODULE Spec2Model ----
(***************************************************************************)
(* The ESP context of libipsec (src/libipsec/esp_context.c): the outbound  *)
(* sequence number counter and the inbound anti-replay window.             *)
(*                                                                         *)
(* Unsigned C arithmetic (u_int32_t, u_int) wraps modulo 2^UintBits; the   *)
(* window is the byte buffer of the code, addressed bit by bit.            *)
(***************************************************************************)
EXTENDS Integers, FiniteSets, Sequences, TLC

(* ------------------------------ bounds --------------------------------- *)

\* width, in bits, given to u_int32_t and u_int (32 in the code)
UintBits == 8

\* log2 of the anti-replay window size used by the dense specification Spec
WindowLog == 2

\* Spec passes the seqnos 0 .. MaxSeqnoIn, and UINT32_MAX, to the operations
MaxSeqnoIn == 9

\* next_seqno calls made on an outbound context after the counter is exhausted
MaxExtraCalls == 2

\* calls of add_connectivity_cb, remove_connectivity_cb and destroy made on
\* the network manager
MaxCalls == 3

\* networkChanged events the Java side delivers
MaxEvents == 2

(* --------------------------- program constants -------------------------- *)

CHAR_BIT == 8

ESP_DEFAULT_WINDOW_SIZE == 128

UintMod == 2 ^ UintBits

UINT32_MAX == UintMod - 1

\* every value of a u_int32_t
Seqnos == 0 .. UINT32_MAX

\* the window size of Spec: ESP_DEFAULT_WINDOW_SIZE scaled down to a power of two
ScaledWindowSize == 2 ^ WindowLog

\* the seqnos Spec passes to the operations
SeqnoInputs == (0 .. MaxSeqnoIn) \cup {UINT32_MAX}

\* the seqnos SpecDefault passes to the operations: those of the scenarios
\* S1..S3 of the specification and the seqnos around the window edge of S3
ScenarioInputs == {0, 1, 2, 3, 71, 72, 73, 200, 201}

(* ------------------------------- state ---------------------------------- *)

VARIABLES
    inbound,        \* this->inbound
    last_seqno,     \* this->last_seqno
    seqno_index,    \* this->seqno_index
    window_size,    \* this->window_size
    window,         \* this->window: the bytes of the buffer, from index 0
    op,             \* the operation called last ("create" after construction)
    arg,            \* its seqno argument (0 when it takes none)
    ret,            \* its boolean return value (TRUE when it returns none)
    out,            \* the seqno it yielded (get_seqno, next_seqno), else 0
    touched,        \* the window bit indexes it read or wrote
    committed,      \* history: see Commit
    inWindowOnly,   \* history: every commit so far was ahead of or inside the window
    ncalls,         \* history: next_seqno calls made on an outbound context
    maxCommitted,   \* history: the highest seqno passed to
                    \* set_authenticated_seqno of an inbound context, else 0
    assigned,       \* history: the seqno the last successful next_seqno
                    \* yielded, else 0
    changed         \* history: the last operation changed a field of the
                    \* context

\* the call of esp_context_create and what it acquired
VARIABLES
    call,           \* its arguments and the outcomes of the library calls it
                    \* makes: see Calls
    result,         \* "none" before the call, "NULL" or "context" as it
                    \* returned, "destroyed" after destroy
    crypter,        \* this->crypter: "NULL", "created" or "keyed"
    signer,         \* this->signer: "NULL", "created" or "keyed"
    heap            \* for each resource, how often the call and destroy
                    \* acquired and released it

\* the network manager of the Android frontend (network_manager.c), the
\* thread of charon that calls its methods and the Java thread that calls
\* networkChanged
VARIABLES
    connectivity_cb,  \* this->connectivity_cb: [cb, data]
    mutex,            \* this->mutex: "unlocked" or the thread that holds it
    freed,            \* destroy has freed the mutex and the object
    java_registered,  \* the Java object is registered for connectivity events
    pc,               \* where each thread is
    args,             \* cb and data of the method the caller is in
    attached,         \* for each thread, calls of androidjni_attach_thread
                      \* less calls of androidjni_detach_thread
    ncalls_nm,        \* methods called so far
    nevents,          \* networkChanged events so far
    did,              \* history: what the last step of a method body did
    active,           \* history: the callbacks registered by a successful
                      \* add_connectivity_cb for which since then neither
                      \* remove_connectivity_cb nor destroy has returned
    invocations       \* history: calls of the callback in the current event

ctx == <<inbound, last_seqno, seqno_index, window_size, window>>

\* the ESP context and its history
esp == <<inbound, last_seqno, seqno_index, window_size, window,
         op, arg, ret, out, touched, committed, inWindowOnly, ncalls,
         maxCommitted, assigned, changed>>

construction == <<call, result, crypter, signer, heap>>

network_manager == <<connectivity_cb, mutex, freed, java_registered, pc, args,
                     attached, ncalls_nm, nevents, did, active, invocations>>

\* what the operations of a constructed ESP context leave alone
env == <<construction, network_manager>>

vars == <<inbound, last_seqno, seqno_index, window_size, window,
          op, arg, ret, out, touched, committed, inWindowOnly, ncalls,
          maxCommitted, assigned, changed, env>>

(* ------------------------- unsigned arithmetic -------------------------- *)

\* the value of an unsigned expression: reduced modulo 2^width
Wrap(x) == x % UintMod

(* ---------------------------- window bits ------------------------------- *)

\* bit b of a byte
ByteBit(byte, b) == (byte \div (2 ^ b)) % 2

\* mutant of ByteOr: the bit is toggled (^= for |=)
ByteXor(byte, b) == IF ByteBit(byte, b) = 1 THEN byte - 2 ^ b ELSE byte + 2 ^ b

\* byte | (1 << b)
ByteOr(byte, b) == IF ByteBit(byte, b) = 1 THEN byte ELSE byte + 2 ^ b

\* byte & ~(1 << b)
ByteAndNot(byte, b) == IF ByteBit(byte, b) = 1 THEN byte - 2 ^ b ELSE byte

set_window_bit(win, index, set) ==
    LET i == index \div CHAR_BIT
    IN  IF set
        THEN [win EXCEPT ![i] = ByteOr(win[i], index % CHAR_BIT)]
        ELSE [win EXCEPT ![i] = ByteAndNot(win[i], index % CHAR_BIT)]

get_window_bit(win, index) ==
    LET i == index \div CHAR_BIT
    IN  ByteBit(win[i], index % CHAR_BIT) # 0

\* mutant of check_window_offset: the offset is added, not subtracted
check_window_offset_added(seqno) ==
    LET offset == Wrap(last_seqno - seqno)
    IN  Wrap(seqno_index + offset) % window_size

\* the index check_window computes for seqno
check_window_offset(seqno) ==
    LET offset == Wrap(last_seqno - seqno)
    IN  Wrap(seqno_index - offset) % window_size

\* mutant of check_window: the negation is dropped
check_window_inverted(seqno) ==
    get_window_bit(window, check_window_offset(seqno))

check_window(seqno) == ~get_window_bit(window, check_window_offset(seqno))

(* ----------------------------- verify_seqno ----------------------------- *)

\* mutant of verify_seqno: the offset is not compared with window_size
verify_seqno_nohorizon(seqno) ==
    IF ~inbound
    THEN FALSE
    ELSE IF seqno > last_seqno
         THEN TRUE
         ELSE IF seqno > 0
              THEN check_window(seqno)
              ELSE FALSE

verify_seqno(seqno) ==
    IF ~inbound
    THEN FALSE
    ELSE IF seqno > last_seqno
         THEN TRUE
         ELSE IF seqno > 0 /\ window_size > Wrap(last_seqno - seqno)
              THEN check_window(seqno)
              ELSE FALSE

\* the window bit indexes verify_seqno reads
verify_seqno_touched(seqno) ==
    IF inbound /\ ~(seqno > last_seqno)
               /\ seqno > 0 /\ window_size > Wrap(last_seqno - seqno)
    THEN {check_window_offset(seqno)}
    ELSE {}

(* ----------------------- set_authenticated_seqno ------------------------ *)

\* mutant of shift_step: the bit stepped over is not cleared
shift_step_noclear(s) ==
    LET index == (s.seqno_index + 1) % window_size
    IN  [seqno_index |-> index,
         window |-> s.window,
         touched |-> s.touched]

\* mutant of shift_step: seqno_index is not reduced modulo window_size
shift_step_nomod(s) ==
    LET index == s.seqno_index + 1
    IN  [seqno_index |-> index,
         window |-> set_window_bit(s.window, index, FALSE),
         touched |-> s.touched \cup {index}]

\* one iteration of the loop of set_authenticated_seqno: advance seqno_index
\* and clear the bit there. s holds seqno_index, window and the bit indexes
\* written so far.
shift_step(s) ==
    LET index == (s.seqno_index + 1) % window_size
    IN  [seqno_index |-> index,
         window |-> set_window_bit(s.window, index, FALSE),
         touched |-> s.touched \cup {index}]

\* for (i = 0; i < shift; ++i) shift_step: the iterations i .. shift - 1, run
\* in order, the first half and then the second half. TLC evaluates the
\* first half when it compares it, not inside the second half, which keeps
\* the depth of the evaluation logarithmic in shift.
RECURSIVE shift_window(_, _, _)
shift_window(s, i, shift) ==
    IF i >= shift
    THEN s
    ELSE IF shift - i = 1
         THEN shift_step(s)
         ELSE LET mid == i + (shift - i) \div 2
                  half == shift_window(s, i, mid)
              IN  IF half = s
                  THEN shift_window(s, mid, shift)
                  ELSE shift_window(half, mid, shift)

\* mutant of set_authenticated_seqno: the new highest seqno is not marked
set_authenticated_seqno_nomark(seqno) ==
    IF ~inbound
    THEN [last_seqno |-> last_seqno, seqno_index |-> seqno_index,
          window |-> window, touched |-> {}]
    ELSE IF seqno > last_seqno
         THEN LET diff == Wrap(seqno - last_seqno)
                  shift == IF diff < window_size THEN diff ELSE window_size
                  s == shift_window([seqno_index |-> seqno_index,
                                     window |-> window, touched |-> {}],
                                    0, shift)
              IN  [last_seqno |-> seqno,
                   seqno_index |-> s.seqno_index,
                   window |-> s.window,
                   touched |-> s.touched]
         ELSE LET i == Wrap(last_seqno - seqno)
                  index == Wrap(seqno_index - i) % window_size
              IN  [last_seqno |-> last_seqno, seqno_index |-> seqno_index,
                   window |-> set_window_bit(window, index, TRUE),
                   touched |-> {index}]

\* mutant of set_authenticated_seqno: the shift is capped at window_size - 1
set_authenticated_seqno_shortshift(seqno) ==
    IF ~inbound
    THEN [last_seqno |-> last_seqno, seqno_index |-> seqno_index,
          window |-> window, touched |-> {}]
    ELSE IF seqno > last_seqno
         THEN LET diff == Wrap(seqno - last_seqno)
                  shift == IF diff < window_size THEN diff
                                                 ELSE window_size - 1
                  s == shift_window([seqno_index |-> seqno_index,
                                     window |-> window, touched |-> {}],
                                    0, shift)
              IN  [last_seqno |-> seqno,
                   seqno_index |-> s.seqno_index,
                   window |-> set_window_bit(s.window, s.seqno_index, TRUE),
                   touched |-> s.touched \cup {s.seqno_index}]
         ELSE LET i == Wrap(last_seqno - seqno)
                  index == Wrap(seqno_index - i) % window_size
              IN  [last_seqno |-> last_seqno, seqno_index |-> seqno_index,
                   window |-> set_window_bit(window, index, TRUE),
                   touched |-> {index}]

\* mutant of set_authenticated_seqno: a seqno inside the window is assigned
\* to last_seqno as well
set_authenticated_seqno_rewind(seqno) ==
    IF ~inbound
    THEN [last_seqno |-> last_seqno, seqno_index |-> seqno_index,
          window |-> window, touched |-> {}]
    ELSE IF seqno > last_seqno
         THEN LET diff == Wrap(seqno - last_seqno)
                  shift == IF diff < window_size THEN diff ELSE window_size
                  s == shift_window([seqno_index |-> seqno_index,
                                     window |-> window, touched |-> {}],
                                    0, shift)
              IN  [last_seqno |-> seqno,
                   seqno_index |-> s.seqno_index,
                   window |-> set_window_bit(s.window, s.seqno_index, TRUE),
                   touched |-> s.touched \cup {s.seqno_index}]
         ELSE LET i == Wrap(last_seqno - seqno)
                  index == Wrap(seqno_index - i) % window_size
              IN  [last_seqno |-> seqno, seqno_index |-> seqno_index,
                   window |-> set_window_bit(window, index, TRUE),
                   touched |-> {index}]

\* mutant of set_authenticated_seqno: the shift is not capped at window_size
set_authenticated_seqno_unclamped(seqno) ==
    IF ~inbound
    THEN [last_seqno |-> last_seqno, seqno_index |-> seqno_index,
          window |-> window, touched |-> {}]
    ELSE IF seqno > last_seqno
         THEN LET shift == Wrap(seqno - last_seqno)
                  s == shift_window([seqno_index |-> seqno_index,
                                     window |-> window, touched |-> {}],
                                    0, shift)
              IN  [last_seqno |-> seqno,
                   seqno_index |-> s.seqno_index,
                   window |-> set_window_bit(s.window, s.seqno_index, TRUE),
                   touched |-> s.touched \cup {s.seqno_index}]
         ELSE LET i == Wrap(last_seqno - seqno)
                  index == Wrap(seqno_index - i) % window_size
              IN  [last_seqno |-> last_seqno, seqno_index |-> seqno_index,
                   window |-> set_window_bit(window, index, TRUE),
                   touched |-> {index}]

\* mutant of set_authenticated_seqno: inside the window the offset is added
\* to seqno_index, not subtracted
set_authenticated_seqno_added(seqno) ==
    IF ~inbound
    THEN [last_seqno |-> last_seqno, seqno_index |-> seqno_index,
          window |-> window, touched |-> {}]
    ELSE IF seqno > last_seqno
         THEN LET diff == Wrap(seqno - last_seqno)
                  shift == IF diff < window_size THEN diff ELSE window_size
                  s == shift_window([seqno_index |-> seqno_index,
                                     window |-> window, touched |-> {}],
                                    0, shift)
              IN  [last_seqno |-> seqno,
                   seqno_index |-> s.seqno_index,
                   window |-> set_window_bit(s.window, s.seqno_index, TRUE),
                   touched |-> s.touched \cup {s.seqno_index}]
         ELSE LET i == Wrap(last_seqno - seqno)
                  index == Wrap(seqno_index + i) % window_size
              IN  [last_seqno |-> last_seqno, seqno_index |-> seqno_index,
                   window |-> set_window_bit(window, index, TRUE),
                   touched |-> {index}]

\* the fields of the context after set_authenticated_seqno(seqno), and the
\* window bit indexes the call wrote
set_authenticated_seqno(seqno) ==
    IF ~inbound
    THEN [last_seqno |-> last_seqno, seqno_index |-> seqno_index,
          window |-> window, touched |-> {}]
    ELSE IF seqno > last_seqno
         THEN LET diff == Wrap(seqno - last_seqno)
                  shift == IF diff < window_size THEN diff ELSE window_size
                  s == shift_window([seqno_index |-> seqno_index,
                                     window |-> window, touched |-> {}],
                                    0, shift)
              IN  [last_seqno |-> seqno,
                   seqno_index |-> s.seqno_index,
                   window |-> set_window_bit(s.window, s.seqno_index, TRUE),
                   touched |-> s.touched \cup {s.seqno_index}]
         ELSE LET i == Wrap(last_seqno - seqno)
                  index == Wrap(seqno_index - i) % window_size
              IN  [last_seqno |-> last_seqno, seqno_index |-> seqno_index,
                   window |-> set_window_bit(window, index, TRUE),
                   touched |-> {index}]

(* ------------------------ get_seqno, next_seqno ------------------------- *)

get_seqno == last_seqno

\* mutant of next_seqno: the counter is not checked against UINT32_MAX
next_seqno_wraps ==
    IF inbound
    THEN [ret |-> FALSE, last_seqno |-> last_seqno, seqno |-> 0]
    ELSE [ret |-> TRUE, last_seqno |-> Wrap(last_seqno + 1),
          seqno |-> Wrap(last_seqno + 1)]

\* mutant of next_seqno: the direction is not checked
next_seqno_nogate ==
    IF last_seqno = UINT32_MAX
    THEN [ret |-> FALSE, last_seqno |-> last_seqno, seqno |-> 0]
    ELSE [ret |-> TRUE, last_seqno |-> Wrap(last_seqno + 1),
          seqno |-> Wrap(last_seqno + 1)]

\* the return value of next_seqno, last_seqno after the call and the value
\* stored through the seqno pointer (0: nothing is stored)
next_seqno ==
    IF inbound \/ last_seqno = UINT32_MAX
    THEN [ret |-> FALSE, last_seqno |-> last_seqno, seqno |-> 0]
    ELSE [ret |-> TRUE, last_seqno |-> Wrap(last_seqno + 1),
          seqno |-> Wrap(last_seqno + 1)]

(* --------------------------- network manager --------------------------- *)

NULL == "NULL"

\* the thread of charon that calls the methods of the network manager
Caller == "charon"

\* the Java thread that calls networkChanged
Jni == "java"

Threads == {Caller, Jni}

\* the callbacks and the data passed to add_connectivity_cb and
\* remove_connectivity_cb
Callbacks == {"cb1", "cb2"}

Datas == {"data1", "data2"}

\* what a method body did: nothing yet
NoStep == [op |-> "none", cb |-> NULL, data |-> NULL, lookup |-> FALSE,
           exception |-> FALSE, register |-> FALSE, unregister |-> FALSE]

\* unregister_network_manager: attach, look up Unregister, call it unless
\* the lookup failed, clear the exception, detach. lookup: GetMethodID found
\* the method; exception: the Java method threw
unregister_network_manager(lookup, exception) ==
    [unregister |-> lookup,
     java_registered |-> IF lookup /\ ~exception
                         THEN FALSE
                         ELSE java_registered,
     attach |-> 1, detach |-> 1]

\* mutant of add_connectivity_cb: the callback is stored although Register
\* threw
add_connectivity_cb_unchecked(cb, data, lookup, exception) ==
    IF connectivity_cb.cb = NULL
    THEN IF ~lookup
         THEN [connectivity_cb |-> connectivity_cb, register |-> FALSE,
               java_registered |-> java_registered,
               attach |-> 1, detach |-> 0]
         ELSE [connectivity_cb |-> [cb |-> cb, data |-> data],
               register |-> TRUE,
               java_registered |-> IF exception THEN java_registered ELSE TRUE,
               attach |-> 1, detach |-> 1]
    ELSE [connectivity_cb |-> connectivity_cb, register |-> FALSE,
          java_registered |-> java_registered, attach |-> 0, detach |-> 0]

\* the body of add_connectivity_cb, between lock and unlock: nothing if a
\* callback is registered; else attach, look up Register (no detach if the
\* lookup fails), call it, store cb and data unless it threw, detach
add_connectivity_cb(cb, data, lookup, exception) ==
    IF connectivity_cb.cb = NULL
    THEN IF ~lookup
         THEN [connectivity_cb |-> connectivity_cb, register |-> FALSE,
               java_registered |-> java_registered,
               attach |-> 1, detach |-> 0]
         ELSE [connectivity_cb |-> IF exception
                                   THEN connectivity_cb
                                   ELSE [cb |-> cb, data |-> data],
               register |-> TRUE,
               java_registered |-> IF exception THEN java_registered ELSE TRUE,
               attach |-> 1, detach |-> 1]
    ELSE [connectivity_cb |-> connectivity_cb, register |-> FALSE,
          java_registered |-> java_registered, attach |-> 0, detach |-> 0]

\* the body of remove_connectivity_cb, between lock and unlock
remove_connectivity_cb(cb, lookup, exception) ==
    IF connectivity_cb.cb = cb
    THEN LET u == unregister_network_manager(lookup, exception)
         IN  [connectivity_cb |-> [connectivity_cb EXCEPT !.cb = NULL],
              unregister |-> u.unregister,
              java_registered |-> u.java_registered,
              attach |-> u.attach, detach |-> u.detach]
    ELSE [connectivity_cb |-> connectivity_cb, unregister |-> FALSE,
          java_registered |-> java_registered, attach |-> 0, detach |-> 0]

\* the body of destroy, between lock and unlock
destroy_locked(lookup, exception) ==
    IF connectivity_cb.cb # NULL
    THEN LET u == unregister_network_manager(lookup, exception)
         IN  [connectivity_cb |-> [connectivity_cb EXCEPT !.cb = NULL],
              unregister |-> u.unregister,
              java_registered |-> u.java_registered,
              attach |-> u.attach, detach |-> u.detach]
    ELSE [connectivity_cb |-> connectivity_cb, unregister |-> FALSE,
          java_registered |-> java_registered, attach |-> 0, detach |-> 0]

\* get_local_address: attach, look up getLocalAddress, call it; on either
\* failure clear the exception and detach, else convert the string and
\* detach. lookup: GetMethodID found the method; found: the call returned a
\* string
get_local_address(lookup, found) ==
    IF lookup /\ found
    THEN [host |-> TRUE, attach |-> 1, detach |-> 1]
    ELSE [host |-> FALSE, attach |-> 1, detach |-> 1]

\* network_manager_create, step by step: attach; FindClass, the lookup of
\* the constructor and NewObject each may fail; on success detach and return
\* the object; on failure clear the exception, detach and call destroy, which
\* locks, finds no callback, unlocks, attaches, deletes the references,
\* detaches and frees
network_manager_create_returns(find_class, lookup, new_object) ==
    IF find_class /\ lookup /\ new_object
    THEN [result |-> "network_manager", attach |-> 1, detach |-> 1,
          lock |-> 0, unlock |-> 0]
    ELSE [result |-> NULL, attach |-> 1 + 1, detach |-> 1 + 1,
          lock |-> 1, unlock |-> 1]

\* the network manager network_manager_create returns: no callback, the
\* mutex created, both threads outside its methods
network_manager_create ==
    /\ connectivity_cb = [cb |-> NULL, data |-> NULL]
    /\ mutex = "unlocked"
    /\ freed = FALSE
    /\ java_registered = FALSE
    /\ pc = [t \in Threads |-> "idle"]
    /\ args = [cb |-> NULL, data |-> NULL]
    /\ attached = [t \in Threads |-> 0]
    /\ ncalls_nm = 0
    /\ nevents = 0
    /\ did = NoStep
    /\ active = {}
    /\ invocations = 0

(* --------------------------- construction ------------------------------- *)

\* chunk_alloc(window_size / CHAR_BIT + 1) and memset 0 for an inbound
\* context; the empty chunk of INIT for an outbound one
new_window(inb, size) ==
    IF inb THEN [i \in 0 .. (size \div CHAR_BIT) |-> 0] ELSE <<>>

\* the encryption and integrity algorithms passed to esp_context_create:
\* those its switch statements name, and one of each kind they do not name
EncAlgs == {"ENCR_AES_CBC", "ENCR_3DES"}

IntAlgs == {"AUTH_HMAC_SHA1_96", "AUTH_HMAC_SHA2_256_128",
            "AUTH_HMAC_SHA2_384_192", "AUTH_HMAC_SHA2_512_256",
            "AUTH_HMAC_MD5_96"}

\* case ENCR_AES_CBC of switch(enc_alg)
EncSupported(enc_alg) == enc_alg = "ENCR_AES_CBC"

\* the four cases of switch(int_alg)
IntSupported(int_alg) ==
    int_alg \in {"AUTH_HMAC_SHA1_96", "AUTH_HMAC_SHA2_256_128",
                 "AUTH_HMAC_SHA2_384_192", "AUTH_HMAC_SHA2_512_256"}

\* a call of esp_context_create: its arguments, and what the crypto library
\* would answer: create_crypter and create_signer return an object, the
\* set_key of each accepts the key
Calls == [enc_alg : EncAlgs, int_alg : IntAlgs, inbound : BOOLEAN,
          create_crypter : BOOLEAN, enc_set_key : BOOLEAN,
          create_signer : BOOLEAN, int_set_key : BOOLEAN]

\* what the call acquires: the context (INIT), the crypter, the signer and
\* the window buffer (chunk_alloc)
Resources == {"this", "crypter", "signer", "window"}

EmptyHeap == [r \in Resources |-> [acquired |-> 0, released |-> 0]]

Acquire(h, r) == [h EXCEPT ![r].acquired = @ + 1]

Release(h, r) == [h EXCEPT ![r].released = @ + 1]

\* mutant of destroy: the signer is not destroyed
destroy_keeps_signer(s) ==
    LET h1 == IF s.window THEN Release(s.heap, "window") ELSE s.heap
        h2 == IF s.crypter # "NULL" THEN Release(h1, "crypter") ELSE h1
    IN  [crypter |-> "NULL", signer |-> "NULL", window |-> FALSE,
         heap |-> Release(h2, "this")]

\* destroy: chunk_free of the window (nothing for the empty chunk),
\* DESTROY_IF of the crypter and of the signer, free(this)
destroy(s) ==
    LET h1 == IF s.window THEN Release(s.heap, "window") ELSE s.heap
        h2 == IF s.crypter # "NULL" THEN Release(h1, "crypter") ELSE h1
        h3 == IF s.signer # "NULL" THEN Release(h2, "signer") ELSE h2
    IN  [crypter |-> "NULL", signer |-> "NULL", window |-> FALSE,
         heap |-> Release(h3, "this")]

\* esp_context_create, step by step: what it returns for the call c, and
\* the handles and the heap it leaves
esp_context_create_returns(c) ==
    LET s0 == [crypter |-> "NULL", signer |-> "NULL", window |-> FALSE,
               heap |-> Acquire(EmptyHeap, "this")]
        s1 == IF EncSupported(c.enc_alg) /\ c.create_crypter
              THEN [s0 EXCEPT !.crypter = "created",
                              !.heap = Acquire(@, "crypter")]
              ELSE s0
        s2 == [s1 EXCEPT !.crypter = "keyed"]
        s3 == IF IntSupported(c.int_alg) /\ c.create_signer
              THEN [s2 EXCEPT !.signer = "created",
                              !.heap = Acquire(@, "signer")]
              ELSE s2
        s4 == [s3 EXCEPT !.signer = "keyed"]
        s5 == IF c.inbound
              THEN [s4 EXCEPT !.window = TRUE, !.heap = Acquire(@, "window")]
              ELSE s4
    IN  IF s1.crypter = "NULL"
        THEN [result |-> "NULL", this |-> destroy(s1)]
        ELSE IF ~c.enc_set_key
        THEN [result |-> "NULL", this |-> destroy(s1)]
        ELSE IF s3.signer = "NULL"
        THEN [result |-> "NULL", this |-> destroy(s3)]
        ELSE IF ~c.int_set_key
        THEN [result |-> "NULL", this |-> destroy(s3)]
        ELSE [result |-> "context", this |-> s5]

\* a call of esp_context_create that succeeds
SuccessfulCall(inb) ==
    [enc_alg |-> "ENCR_AES_CBC", int_alg |-> "AUTH_HMAC_SHA1_96",
     inbound |-> inb, create_crypter |-> TRUE, enc_set_key |-> TRUE,
     create_signer |-> TRUE, int_set_key |-> TRUE]

\* the context esp_context_create returns, with the given window size
esp_context_create(size) ==
    /\ inbound \in BOOLEAN
    /\ call = SuccessfulCall(inbound)
    /\ result = esp_context_create_returns(call).result
    /\ crypter = esp_context_create_returns(call).this.crypter
    /\ signer = esp_context_create_returns(call).this.signer
    /\ heap = esp_context_create_returns(call).this.heap
    /\ network_manager_create
    /\ last_seqno = 0
    /\ seqno_index = 0
    /\ window_size = size
    /\ window = new_window(inbound, size)
    /\ op = "create"
    /\ arg = 0
    /\ ret = TRUE
    /\ out = 0
    /\ touched = {}
    /\ committed = {}
    /\ inWindowOnly = TRUE
    /\ ncalls = 0
    /\ maxCommitted = 0
    /\ assigned = 0
    /\ changed = FALSE

Init == esp_context_create(ScaledWindowSize)

InitDefault == esp_context_create(ESP_DEFAULT_WINDOW_SIZE)

(* ------------------------------ actions --------------------------------- *)

\* seqno is ahead of or inside the window
AheadOrInside(seqno) ==
    \/ seqno > last_seqno
    \/ seqno > 0 /\ last_seqno - seqno < window_size

\* seqno lies in the window range of a context whose last_seqno is last
InRange(seqno, last) ==
    seqno > 0 /\ seqno <= last /\ last - seqno < window_size

\* mutant of VerifySeqno: a seqno accepted inside the window is marked at once
VerifySeqnoMarks(seqno) ==
    /\ op' = "verify_seqno"
    /\ arg' = seqno
    /\ ret' = verify_seqno(seqno)
    /\ out' = 0
    /\ touched' = verify_seqno_touched(seqno)
    /\ window' = IF verify_seqno(seqno) /\ seqno <= last_seqno
                 THEN set_window_bit(window, check_window_offset(seqno), TRUE)
                 ELSE window
    /\ changed' = (window' # window)
    /\ UNCHANGED <<inbound, last_seqno, seqno_index, window_size,
                   committed, inWindowOnly, ncalls, maxCommitted, assigned>>
    /\ UNCHANGED env

VerifySeqno(seqno) ==
    /\ op' = "verify_seqno"
    /\ arg' = seqno
    /\ ret' = verify_seqno(seqno)
    /\ out' = 0
    /\ touched' = verify_seqno_touched(seqno)
    /\ changed' = FALSE
    /\ UNCHANGED <<ctx, committed, inWindowOnly, ncalls, maxCommitted,
                   assigned>>
    /\ UNCHANGED env

\* Commit: besides the call, the history of an inbound context. inWindowOnly
\* stays TRUE while every seqno committed was ahead of or inside the window
\* when it was committed; committed then holds the seqnos committed so far
\* that lie in the window range of the new last_seqno (last_seqno never
\* decreases, so a seqno that left the range never returns), and is emptied
\* once a commit was below the window.
SetAuthenticatedSeqno(seqno) ==
    LET r == set_authenticated_seqno(seqno)
        ok == inWindowOnly /\ (inbound => AheadOrInside(seqno))
    IN  /\ last_seqno' = r.last_seqno
        /\ seqno_index' = r.seqno_index
        /\ window' = r.window
        /\ op' = "set_authenticated_seqno"
        /\ arg' = seqno
        /\ ret' = TRUE
        /\ out' = 0
        /\ touched' = r.touched
        /\ changed' = (<<r.last_seqno, r.seqno_index, r.window>>
                          # <<last_seqno, seqno_index, window>>)
        /\ inWindowOnly' = ok
        /\ committed' = IF inbound /\ ok
                        THEN {t \in committed \cup {seqno} :
                                 InRange(t, r.last_seqno)}
                        ELSE {}
        /\ maxCommitted' = IF inbound /\ seqno > maxCommitted
                           THEN seqno
                           ELSE maxCommitted
        /\ UNCHANGED <<inbound, window_size, ncalls, assigned>>
        /\ UNCHANGED env

GetSeqno ==
    /\ op' = "get_seqno"
    /\ arg' = 0
    /\ ret' = TRUE
    /\ out' = get_seqno
    /\ touched' = {}
    /\ changed' = FALSE
    /\ UNCHANGED <<ctx, committed, inWindowOnly, ncalls, maxCommitted,
                   assigned>>
    /\ UNCHANGED env

NextSeqno ==
    /\ inbound \/ ncalls < UINT32_MAX + MaxExtraCalls
    /\ LET r == next_seqno
       IN  /\ last_seqno' = r.last_seqno
           /\ ret' = r.ret
           /\ out' = r.seqno
           /\ assigned' = IF r.ret THEN r.seqno ELSE assigned
           /\ changed' = (r.last_seqno # last_seqno)
    /\ op' = "next_seqno"
    /\ arg' = 0
    /\ touched' = {}
    /\ ncalls' = IF inbound THEN ncalls ELSE ncalls + 1
    /\ UNCHANGED <<inbound, seqno_index, window_size, window,
                   committed, inWindowOnly, maxCommitted>>
    /\ UNCHANGED env

Next ==
    \/ \E seqno \in SeqnoInputs : VerifySeqno(seqno)
    \/ \E seqno \in SeqnoInputs : SetAuthenticatedSeqno(seqno)
    \/ GetSeqno
    \/ NextSeqno

Spec == Init /\ [][Next]_vars

NextDefault ==
    \/ \E seqno \in ScenarioInputs : VerifySeqno(seqno)
    \/ \E seqno \in ScenarioInputs : SetAuthenticatedSeqno(seqno)
    \/ GetSeqno
    \/ NextSeqno

SpecDefault == InitDefault /\ [][NextDefault]_vars

(* ----------------------- construction, as a call ----------------------- *)

\* before esp_context_create is called there is no context: the fields are
\* those of no object
InitCreate ==
    /\ inbound = FALSE
    /\ last_seqno = 0
    /\ seqno_index = 0
    /\ window_size = 0
    /\ window = <<>>
    /\ op = "none"
    /\ arg = 0
    /\ ret = TRUE
    /\ out = 0
    /\ touched = {}
    /\ committed = {}
    /\ inWindowOnly = TRUE
    /\ ncalls = 0
    /\ maxCommitted = 0
    /\ assigned = 0
    /\ changed = FALSE
    /\ call = SuccessfulCall(FALSE)
    /\ result = "none"
    /\ crypter = "NULL"
    /\ signer = "NULL"
    /\ heap = EmptyHeap
    /\ network_manager_create

\* esp_context_create(enc_alg, enc_key, int_alg, int_key, inbound), called
\* while no context is held
EspContextCreate(c) ==
    /\ result # "context"
    /\ LET r == esp_context_create_returns(c)
       IN  /\ call' = c
           /\ result' = r.result
           /\ crypter' = r.this.crypter
           /\ signer' = r.this.signer
           /\ heap' = r.this.heap
           /\ inbound' = (r.result = "context" /\ c.inbound)
           /\ window_size' = IF r.result = "context"
                             THEN ESP_DEFAULT_WINDOW_SIZE
                             ELSE 0
           /\ window' = IF r.result = "context"
                        THEN new_window(c.inbound, ESP_DEFAULT_WINDOW_SIZE)
                        ELSE <<>>
    /\ last_seqno' = 0
    /\ seqno_index' = 0
    /\ op' = "create"
    /\ UNCHANGED <<arg, ret, out, touched, committed, inWindowOnly, ncalls,
                   maxCommitted, assigned, changed>>
    /\ UNCHANGED network_manager

\* destroy, called on the context esp_context_create returned
Destroy ==
    /\ result = "context"
    /\ LET s == destroy([crypter |-> crypter, signer |-> signer,
                         window |-> window # <<>>, heap |-> heap])
       IN  /\ crypter' = s.crypter
           /\ signer' = s.signer
           /\ heap' = s.heap
    /\ result' = "destroyed"
    /\ inbound' = FALSE
    /\ window_size' = 0
    /\ window' = <<>>
    /\ op' = "destroy"
    /\ UNCHANGED <<call, last_seqno, seqno_index, arg, ret, out, touched,
                   committed, inWindowOnly, ncalls, maxCommitted, assigned,
                   changed>>
    /\ UNCHANGED network_manager

NextCreate ==
    \/ \E c \in Calls : EspContextCreate(c)
    \/ Destroy

SpecCreate == InitCreate /\ [][NextCreate]_vars

(* ------------------- network manager: the two threads ------------------ *)

\* the caller is between lock and unlock of a method
InCriticalSection ==
    pc[Caller] \in {"add_body", "add_unlock", "remove_body", "remove_unlock",
                    "destroy_body", "destroy_unlock"}

\* the caller enters a method that starts with mutex->lock, and gets the lock
Lock(method, cb, data) ==
    /\ pc[Caller] = "idle"
    /\ ~freed
    /\ mutex = "unlocked"
    /\ mutex' = Caller
    /\ pc' = [pc EXCEPT ![Caller] = method]
    /\ args' = [cb |-> cb, data |-> data]
    /\ UNCHANGED <<connectivity_cb, freed, java_registered, attached, nevents,
                   did, active, invocations>>
    /\ UNCHANGED <<esp, construction>>

\* mutex->unlock at the end of a method
Unlock(method, next) ==
    /\ pc[Caller] = method
    /\ mutex' = "unlocked"
    /\ pc' = [pc EXCEPT ![Caller] = next]
    /\ UNCHANGED <<connectivity_cb, freed, java_registered, args, attached,
                   ncalls_nm, nevents, did, invocations>>
    /\ UNCHANGED <<esp, construction>>

\* add_connectivity_cb(cb, data): lock
AddLock(cb, data) ==
    /\ ncalls_nm < MaxCalls
    /\ ncalls_nm' = ncalls_nm + 1
    /\ Lock("add_body", cb, data)

\* add_connectivity_cb: the locked body
AddBody(lookup, exception) ==
    /\ pc[Caller] = "add_body"
    /\ LET r == add_connectivity_cb(args.cb, args.data, lookup, exception)
       IN  /\ connectivity_cb' = r.connectivity_cb
           /\ java_registered' = r.java_registered
           /\ attached' = [attached EXCEPT
                               ![Caller] = @ + r.attach - r.detach]
           /\ did' = [op |-> "add", cb |-> args.cb, data |-> args.data,
                      lookup |-> lookup, exception |-> exception,
                      register |-> r.register, unregister |-> FALSE]
           /\ active' = IF r.register /\ ~exception
                        THEN active \cup {args.cb}
                        ELSE active
    /\ pc' = [pc EXCEPT ![Caller] = "add_unlock"]
    /\ UNCHANGED <<mutex, freed, args, ncalls_nm, nevents, invocations>>
    /\ UNCHANGED <<esp, construction>>

\* add_connectivity_cb: unlock and return
AddUnlock ==
    /\ Unlock("add_unlock", "idle")
    /\ UNCHANGED active

\* remove_connectivity_cb(cb): lock
RemoveLock(cb) ==
    /\ ncalls_nm < MaxCalls
    /\ ncalls_nm' = ncalls_nm + 1
    /\ Lock("remove_body", cb, NULL)

\* remove_connectivity_cb: the locked body
RemoveBody(lookup, exception) ==
    /\ pc[Caller] = "remove_body"
    /\ LET r == remove_connectivity_cb(args.cb, lookup, exception)
       IN  /\ connectivity_cb' = r.connectivity_cb
           /\ java_registered' = r.java_registered
           /\ attached' = [attached EXCEPT
                               ![Caller] = @ + r.attach - r.detach]
           /\ did' = [op |-> "remove", cb |-> args.cb, data |-> NULL,
                      lookup |-> lookup, exception |-> exception,
                      register |-> FALSE, unregister |-> r.unregister]
    /\ pc' = [pc EXCEPT ![Caller] = "remove_unlock"]
    /\ UNCHANGED <<mutex, freed, args, ncalls_nm, nevents, active,
                   invocations>>
    /\ UNCHANGED <<esp, construction>>

\* remove_connectivity_cb: unlock and return
RemoveUnlock ==
    /\ Unlock("remove_unlock", "idle")
    /\ active' = active \ {args.cb}

\* destroy: lock
DestroyLock ==
    /\ Lock("destroy_body", NULL, NULL)
    /\ UNCHANGED ncalls_nm

\* destroy: the locked body
DestroyBody(lookup, exception) ==
    /\ pc[Caller] = "destroy_body"
    /\ LET r == destroy_locked(lookup, exception)
       IN  /\ connectivity_cb' = r.connectivity_cb
           /\ java_registered' = r.java_registered
           /\ attached' = [attached EXCEPT
                               ![Caller] = @ + r.attach - r.detach]
           /\ did' = [op |-> "destroy", cb |-> NULL, data |-> NULL,
                      lookup |-> lookup, exception |-> exception,
                      register |-> FALSE, unregister |-> r.unregister]
    /\ pc' = [pc EXCEPT ![Caller] = "destroy_unlock"]
    /\ UNCHANGED <<mutex, freed, args, ncalls_nm, nevents, active,
                   invocations>>
    /\ UNCHANGED <<esp, construction>>

\* destroy: unlock
DestroyUnlock ==
    /\ Unlock("destroy_unlock", "destroy_free")
    /\ UNCHANGED active

\* destroy, after the unlock: attach, delete the global references, detach,
\* destroy the mutex, free the object, return
DestroyFree ==
    /\ pc[Caller] = "destroy_free"
    /\ freed' = TRUE
    /\ active' = {}
    /\ pc' = [pc EXCEPT ![Caller] = "done"]
    /\ UNCHANGED <<connectivity_cb, mutex, java_registered, args, attached,
                   ncalls_nm, nevents, did, invocations>>
    /\ UNCHANGED <<esp, construction>>

\* the Java side, registered, reports an event: networkChanged fetches the
\* network manager
NetworkChangedEnter ==
    /\ pc[Jni] = "idle"
    /\ java_registered
    /\ ~freed
    /\ nevents < MaxEvents
    /\ nevents' = nevents + 1
    /\ invocations' = 0
    /\ pc' = [pc EXCEPT ![Jni] = "nc_lock"]
    /\ UNCHANGED <<connectivity_cb, mutex, freed, java_registered, args,
                   attached, ncalls_nm, did, active>>
    /\ UNCHANGED <<esp, construction>>

\* networkChanged: nm->mutex->lock
NetworkChangedLock ==
    /\ pc[Jni] = "nc_lock"
    /\ ~freed
    /\ mutex = "unlocked"
    /\ mutex' = Jni
    /\ pc' = [pc EXCEPT ![Jni] = "nc_body"]
    /\ UNCHANGED <<connectivity_cb, freed, java_registered, args, attached,
                   ncalls_nm, nevents, did, active, invocations>>
    /\ UNCHANGED <<esp, construction>>

\* networkChanged: nm->mutex->lock after destroy freed the mutex and the
\* object: the call crashes the thread, or it returns
NetworkChangedLockFreed(crash) ==
    /\ pc[Jni] = "nc_lock"
    /\ freed
    /\ pc' = [pc EXCEPT ![Jni] = IF crash THEN "crashed" ELSE "nc_body"]
    /\ UNCHANGED <<connectivity_cb, mutex, freed, java_registered, args,
                   attached, ncalls_nm, nevents, did, active, invocations>>
    /\ UNCHANGED <<esp, construction>>

\* if (cb) cb(data, disconnected), for the cb and data read from the object
Deliver(cb, data) ==
    /\ did' = [op |-> IF cb # NULL THEN "callback" ELSE "networkChanged",
               cb |-> cb, data |-> data, lookup |-> FALSE,
               exception |-> FALSE, register |-> FALSE, unregister |-> FALSE]
    /\ invocations' = IF cb # NULL THEN invocations + 1 ELSE invocations
    /\ pc' = [pc EXCEPT ![Jni] = "nc_unlock"]
    /\ UNCHANGED <<connectivity_cb, mutex, freed, java_registered, args,
                   attached, ncalls_nm, nevents, active>>
    /\ UNCHANGED <<esp, construction>>

\* networkChanged: the locked body
NetworkChangedBody ==
    /\ pc[Jni] = "nc_body"
    /\ ~freed
    /\ Deliver(connectivity_cb.cb, connectivity_cb.data)

\* networkChanged: the body after destroy freed the object: the fields read
\* hold any value
NetworkChangedBodyFreed(cb, data) ==
    /\ pc[Jni] = "nc_body"
    /\ freed
    /\ Deliver(cb, data)

\* networkChanged: nm->mutex->unlock and return
NetworkChangedUnlock ==
    /\ pc[Jni] = "nc_unlock"
    /\ mutex' = IF freed THEN mutex ELSE "unlocked"
    /\ pc' = [pc EXCEPT ![Jni] = "idle"]
    /\ UNCHANGED <<connectivity_cb, freed, java_registered, args, attached,
                   ncalls_nm, nevents, did, active, invocations>>
    /\ UNCHANGED <<esp, construction>>

\* get_local_address(ipv4): it takes no lock
GetLocalAddress(lookup, found) ==
    /\ pc[Caller] = "idle"
    /\ ~freed
    /\ ncalls_nm < MaxCalls
    /\ ncalls_nm' = ncalls_nm + 1
    /\ LET r == get_local_address(lookup, found)
       IN  /\ attached' = [attached EXCEPT
                               ![Caller] = @ + r.attach - r.detach]
           /\ did' = [op |-> "get_local_address", cb |-> NULL, data |-> NULL,
                      lookup |-> lookup, exception |-> ~r.host,
                      register |-> FALSE, unregister |-> FALSE]
    /\ UNCHANGED <<connectivity_cb, mutex, freed, java_registered, pc, args,
                   nevents, active, invocations>>
    /\ UNCHANGED <<esp, construction>>

\* network_manager_create(context), called once the former object is
\* destroyed and no networkChanged is under way
NetworkManagerCreate(find_class, lookup, new_object) ==
    /\ pc[Caller] = "done"
    /\ freed
    /\ pc[Jni] \in {"idle", "crashed"}
    /\ ncalls_nm < MaxCalls
    /\ ncalls_nm' = ncalls_nm + 1
    /\ LET r == network_manager_create_returns(find_class, lookup, new_object)
           created == r.result # NULL
       IN  /\ attached' = [attached EXCEPT
                               ![Caller] = @ + r.attach - r.detach]
           /\ mutex' = IF r.lock = r.unlock THEN "unlocked" ELSE Caller
           /\ freed' = ~created
           /\ pc' = [pc EXCEPT ![Caller] = IF created THEN "idle" ELSE "done"]
           /\ did' = [op |-> "create", cb |-> NULL, data |-> NULL,
                      lookup |-> find_class /\ lookup,
                      exception |-> ~created,
                      register |-> FALSE, unregister |-> FALSE]
    /\ connectivity_cb' = [cb |-> NULL, data |-> NULL]
    /\ args' = [cb |-> NULL, data |-> NULL]
    /\ active' = {}
    /\ UNCHANGED <<java_registered, nevents, invocations>>
    /\ UNCHANGED <<esp, construction>>

InitNm == InitCreate

NextNm ==
    \/ \E cb \in Callbacks, data \in Datas : AddLock(cb, data)
    \/ \E lookup \in BOOLEAN, exception \in BOOLEAN :
          AddBody(lookup, exception)
    \/ AddUnlock
    \/ \E cb \in Callbacks : RemoveLock(cb)
    \/ \E lookup \in BOOLEAN, exception \in BOOLEAN :
          RemoveBody(lookup, exception)
    \/ RemoveUnlock
    \/ DestroyLock
    \/ \E lookup \in BOOLEAN, exception \in BOOLEAN :
          DestroyBody(lookup, exception)
    \/ DestroyUnlock
    \/ DestroyFree
    \/ NetworkChangedEnter
    \/ NetworkChangedLock
    \/ \E crash \in BOOLEAN : NetworkChangedLockFreed(crash)
    \/ NetworkChangedBody
    \/ \E cb \in Callbacks \cup {NULL}, data \in Datas \cup {NULL} :
          NetworkChangedBodyFreed(cb, data)
    \/ NetworkChangedUnlock
    \/ \E lookup \in BOOLEAN, found \in BOOLEAN :
          GetLocalAddress(lookup, found)
    \/ \E find_class \in BOOLEAN, lookup \in BOOLEAN, new_object \in BOOLEAN :
          NetworkManagerCreate(find_class, lookup, new_object)

SpecNm == InitNm /\ [][NextNm]_vars

(* ======================================================================= *)
(* Properties                                                              *)
(* ======================================================================= *)

\* the window bit indexes whose bit is 1, over the whole buffer
WindowBits ==
    {k \in 0 .. (CHAR_BIT * Cardinality(DOMAIN window) - 1) :
        get_window_bit(window, k)}

\* the window slot of seqno, in unbounded integer arithmetic
SlotOf(seqno) == (seqno_index - (last_seqno - seqno)) % window_size

\* the window bit of seqno is 1
Marked(seqno) == get_window_bit(window, SlotOf(seqno))

\* the seqnos inside the window
WindowRange ==
    (IF last_seqno >= window_size THEN last_seqno - window_size + 1 ELSE 1)
        .. last_seqno

\* seqno is inside the window: seqno > 0 and 0 <= last_seqno - seqno < window_size
Inside(seqno) == InRange(seqno, last_seqno)

\* seqno is below the window
Below(seqno) == seqno <= last_seqno /\ last_seqno - seqno >= window_size

(* ------------------------------------------------------------------ C1 -- *)

\* what C1 says verify_seqno(seqno) returns on an inbound context
C1_Expected(seqno) ==
    IF seqno > last_seqno
    THEN TRUE
    ELSE IF Inside(seqno)
         THEN ~Marked(seqno)
         ELSE FALSE

\* C1: on an inbound context, in every reachable state and for every value s
\* of a u_int32_t, verify_seqno(s) is true if s > last_seqno, is true exactly
\* when window bit (seqno_index - (last_seqno - s)) mod window_size is 0 if
\* s > 0 and last_seqno - s < window_size, and is false if s = 0 or
\* last_seqno - s >= window_size; the value a verify_seqno call returned is
\* this one.
C1_VerifySeqnoPolicy ==
    inbound =>
        /\ \A s \in Seqnos :
              /\ verify_seqno(s) = C1_Expected(s)
              /\ (s = 0 \/ Below(s)) => ~verify_seqno(s)
        /\ op = "verify_seqno" => ret = C1_Expected(arg)

\* a verify_seqno call accepted a seqno strictly inside the window while
\* another seqno of the window is rejected as a replay
C1_Witness ==
    /\ inbound
    /\ op = "verify_seqno"
    /\ Inside(arg) /\ arg < last_seqno
    /\ ret
    /\ \E s \in Seqnos : Inside(s) /\ s < arg /\ ~verify_seqno(s)

(* ------------------------------------------------------------------ C2 -- *)

\* C2: on an inbound context whose commits were each ahead of or inside the
\* window when made, for every s > 0 with
\* last_seqno - window_size < s <= last_seqno the window bit
\* (seqno_index - (last_seqno - s)) mod window_size is 1, and verify_seqno(s)
\* is false, exactly when s was passed to set_authenticated_seqno before.
C2_WindowAgreesWithCommitted ==
    (inbound /\ inWindowOnly) =>
        /\ committed \subseteq WindowRange
        /\ \A s \in WindowRange :
              /\ Inside(s)
              /\ Marked(s) <=> (s \in committed)
              /\ verify_seqno(s) <=> (s \notin committed)

\* after a reordered (in-window) commit the window holds three committed
\* seqnos and a gap between them
C2_Witness ==
    /\ inbound /\ inWindowOnly
    /\ op = "set_authenticated_seqno"
    /\ arg < last_seqno /\ arg \in committed
    /\ Cardinality(committed) >= 3
    /\ \E s \in Seqnos : Inside(s) /\ s > arg /\ s \notin committed

(* ------------------------------------------------------------------ C3 -- *)

\* C3: on an outbound context the k-th call to next_seqno succeeds and
\* yields k, for k = 1 .. UINT32_MAX; every later call fails and leaves
\* last_seqno at UINT32_MAX.
C3_NextSeqnoCounts ==
    ~inbound =>
        /\ last_seqno = IF ncalls <= UINT32_MAX THEN ncalls ELSE UINT32_MAX
        /\ op = "next_seqno" =>
              IF ncalls <= UINT32_MAX
              THEN ret /\ out = ncalls /\ out # 0
              ELSE ~ret /\ last_seqno = UINT32_MAX

\* the second call after the counter reached UINT32_MAX has failed
C3_Witness ==
    /\ ~inbound
    /\ op = "next_seqno"
    /\ ncalls = UINT32_MAX + 2
    /\ ~ret
    /\ last_seqno = UINT32_MAX

(* ------------------------------------------------------------------ C4 -- *)

\* a fresh inbound context with the default window size on which only
\* set_authenticated_seqno(200) was called
S3_Committed200 ==
    /\ inbound
    /\ window_size = ESP_DEFAULT_WINDOW_SIZE
    /\ inWindowOnly
    /\ committed = {200}
    /\ last_seqno = 200
    /\ seqno_index = 0

\* C4 as stated: after set_authenticated_seqno(200) on a fresh inbound
\* context with window_size 128, verify_seqno(71) is false and
\* verify_seqno(72) is true.
C4_AsStated ==
    S3_Committed200 => ~verify_seqno(71) /\ verify_seqno(72)

\* C4 amended: after set_authenticated_seqno(200) on a fresh inbound context
\* with window_size 128, verify_seqno(71) and verify_seqno(72) are false
\* (200 - 72 = 128 is not less than window_size) and verify_seqno(73), the
\* lowest seqno of the window, is true.
C4_WindowEdge ==
    S3_Committed200 =>
        /\ ~verify_seqno(71)
        /\ ~verify_seqno(72)
        /\ verify_seqno(73)
        /\ (op = "verify_seqno" /\ arg \in {71, 72}) => ~ret
        /\ (op = "verify_seqno" /\ arg = 73) => ret

\* verify_seqno(72) was called right after the commit of 200 and returned false
C4_Witness ==
    /\ S3_Committed200
    /\ op = "verify_seqno"
    /\ arg = 72
    /\ ~ret

(* ------------------------------------------------------------------ C5 -- *)

\* C5: on an inbound context, right after set_authenticated_seqno(s) with
\* s > 0, verify_seqno(s) is false, whether s was ahead of, inside or below
\* the window.
C5_CommittedIsRejected ==
    (inbound /\ op = "set_authenticated_seqno" /\ arg > 0) =>
        ~verify_seqno(arg)

\* a seqno below the window has just been committed
C5_Witness ==
    /\ inbound
    /\ op = "set_authenticated_seqno"
    /\ arg > 0
    /\ Below(arg)

(* ------------------------------------------------------------------ C6 -- *)

\* C6: a step set_authenticated_seqno(s) of an inbound context with
\* s >= last_seqno + window_size leaves exactly one window bit set, the one
\* at the new seqno_index; verify_seqno(s) is then false and
\* verify_seqno(s - 1) true, and every seqno up to the old last_seqno lies
\* below the window and is rejected.
C6_AdvancePastWindow ==
    [][ \A s \in {arg'} :
          ( /\ inbound
            /\ op' = "set_authenticated_seqno"
            /\ s >= last_seqno + window_size )
          => /\ WindowBits' = {seqno_index'}
             /\ last_seqno' = s
             /\ ~verify_seqno(s)'
             /\ verify_seqno(s - 1)'
             /\ \A t \in 1 .. last_seqno :
                   Below(t)' /\ ~verify_seqno(t)' ]_vars

\* a commit has stepped over the whole window (it wrote every slot) of a
\* context that had advanced before (seqno_index is not 0): one bit is left
C6_Witness ==
    /\ inbound
    /\ op = "set_authenticated_seqno"
    /\ arg = last_seqno
    /\ seqno_index # 0
    /\ touched = 0 .. (window_size - 1)
    /\ WindowBits = {seqno_index}

(* ------------------------------------------------------------------ C7 -- *)

\* C7: on an inbound context with last_seqno > window_size, verify_seqno(s)
\* is false for every s <= last_seqno - window_size, whatever the window
\* bits are.
C7_WindowHorizon ==
    (inbound /\ last_seqno > window_size) =>
        \A s \in 0 .. (last_seqno - window_size) : ~verify_seqno(s)

\* verify_seqno rejected a seqno below the window whose slot (the one its
\* wrapped offset selects) holds a 0 bit
C7_Witness ==
    /\ inbound
    /\ last_seqno > window_size
    /\ op = "verify_seqno"
    /\ arg >= 1 /\ arg <= last_seqno - window_size
    /\ ~ret
    /\ check_window(arg)

(* ------------------------------------------------------------------ C8 -- *)

\* C8: a verify_seqno call changes no field of the context, inbound or
\* outbound, whatever it returns.
C8_VerifyIsPure ==
    [][ op' = "verify_seqno" => UNCHANGED ctx ]_vars

\* verify_seqno accepted an in-window seqno of a context that has rejected
\* bits around it
C8_Witness ==
    /\ inbound
    /\ op = "verify_seqno"
    /\ Inside(arg)
    /\ ret
    /\ Cardinality(WindowBits) >= 2

(* ------------------------------------------------------------------ C9 -- *)

\* C9: on an outbound context verify_seqno returns false and
\* set_authenticated_seqno changes no field and accesses no window bit; on
\* an inbound context next_seqno fails and leaves last_seqno unchanged.
C9_DirectionGating ==
    [][ /\ (~inbound /\ op' = "verify_seqno") => (~ret' /\ touched' = {})
        /\ (~inbound /\ op' = "set_authenticated_seqno")
              => (UNCHANGED ctx /\ touched' = {})
        /\ (inbound /\ op' = "next_seqno")
              => (~ret' /\ last_seqno' = last_seqno) ]_vars

\* set_authenticated_seqno was called on an outbound context that has
\* assigned seqnos
C9_Witness ==
    /\ ~inbound
    /\ op = "set_authenticated_seqno"
    /\ arg > last_seqno
    /\ last_seqno > 0

(* ----------------------------------------------------------------- C10 -- *)

\* C10: over any sequence of operations with any inputs, on a context of
\* either direction, the value get_seqno returns never decreases.
C10_GetSeqnoMonotonic ==
    [][ get_seqno' >= get_seqno ]_vars

\* get_seqno is called on an inbound context after a commit below the window
C10_Witness ==
    /\ inbound
    /\ ~inWindowOnly
    /\ op = "get_seqno"
    /\ out = last_seqno
    /\ out > window_size

(* ----------------------------------------------------------------- C11 -- *)

\* C11: get_seqno returns, on an inbound context, the highest seqno ever
\* passed to set_authenticated_seqno (0 if there was none) and, on an
\* outbound context, the value the most recent successful next_seqno
\* yielded (0 if there was none); a get_seqno call returned that value.
C11_GetSeqnoHighWaterMark ==
    /\ get_seqno = IF inbound THEN maxCommitted ELSE assigned
    /\ op = "get_seqno" => out = IF inbound THEN maxCommitted ELSE assigned

\* a seqno lower than the highest committed one has just been committed
\* below the window
C11_Witness ==
    /\ inbound
    /\ op = "set_authenticated_seqno"
    /\ arg > 0
    /\ arg + window_size <= maxCommitted
    /\ get_seqno = maxCommitted

(* ----------------------------------------------------------------- C14 -- *)

\* C14: after a step set_authenticated_seqno(s) of an inbound context a
\* second set_authenticated_seqno(s) would leave last_seqno, seqno_index and
\* every window bit as they are; and a step that commits an in-window seqno
\* whose bit is already 1 changes no field.
C14_CommitIsIdempotent ==
    [][ \A s \in {arg'} :
          (inbound /\ op' = "set_authenticated_seqno") =>
              /\ LET r == set_authenticated_seqno(s)'
                 IN  /\ r.last_seqno = last_seqno'
                     /\ r.seqno_index = seqno_index'
                     /\ r.window = window'
              /\ (Inside(s) /\ Marked(s)) => (UNCHANGED ctx /\ ~changed') ]_vars

\* an in-window seqno below last_seqno was committed again: nothing changed
C14_Witness ==
    /\ inbound
    /\ op = "set_authenticated_seqno"
    /\ Inside(arg) /\ arg < last_seqno
    /\ ~changed
    /\ Marked(arg)

(* ----------------------------------------------------------------- C15 -- *)

\* C15: a step set_authenticated_seqno(s) of an inbound context with
\* s <= last_seqno and last_seqno - s < window_size leaves last_seqno and
\* seqno_index unchanged, changes no window bit but that of slot
\* (seqno_index - (last_seqno - s)) mod window_size, which it sets, and
\* leaves verify_seqno(t) unchanged for every other seqno t.
C15_InWindowCommitFrame ==
    [][ \A s \in {arg'} :
          ( /\ inbound
            /\ op' = "set_authenticated_seqno"
            /\ s <= last_seqno
            /\ last_seqno - s < window_size )
          => /\ last_seqno' = last_seqno
             /\ seqno_index' = seqno_index
             /\ WindowBits' = WindowBits \cup {SlotOf(s)}
             /\ touched' = {SlotOf(s)}
             /\ \A t \in Seqnos \ {s} :
                   verify_seqno(t)' = verify_seqno(t) ]_vars

\* a seqno inside the window, below last_seqno, was committed for the first
\* time into a window that holds other accepted seqnos
C15_Witness ==
    /\ inbound
    /\ op = "set_authenticated_seqno"
    /\ Inside(arg) /\ arg < last_seqno
    /\ changed
    /\ Cardinality(WindowBits) >= 3

(* ----------------------------------------------------------------- C16 -- *)

\* the slots the loop steps over when it advances by shift
SteppedOver(shift) == {(seqno_index + k) % window_size : k \in 1 .. shift}

\* C16: a step set_authenticated_seqno(s) of an inbound context with
\* s > last_seqno, where shift = min(s - last_seqno, window_size): moves
\* seqno_index to (seqno_index + shift) mod window_size (the old index when
\* shift = window_size), writes the slots stepped over and clears their
\* bits, sets the bit at the new seqno_index, changes no other bit, assigns
\* last_seqno = s, and leaves the bit of every seqno t with
\* s - window_size < t <= old last_seqno as it was, so a committed one is
\* still marked.
C16_AdvanceStep ==
    [][ \A s \in {arg'} :
          (inbound /\ op' = "set_authenticated_seqno" /\ s > last_seqno) =>
              LET d == s - last_seqno
                  shift == IF d < window_size THEN d ELSE window_size
              IN  /\ seqno_index' = (seqno_index + shift) % window_size
                  /\ shift = window_size => seqno_index' = seqno_index
                  /\ touched' = SteppedOver(shift)
                  /\ WindowBits' =
                        (WindowBits \ SteppedOver(shift)) \cup {seqno_index'}
                  /\ last_seqno' = s
                  /\ \A t \in WindowRange :
                        t > s - window_size =>
                            /\ Marked(t)' = Marked(t)
                            /\ (inWindowOnly /\ t \in committed) => Marked(t)'
          ]_vars

\* a commit advanced the window by 2 .. window_size - 1 slots and an older
\* committed seqno is still marked
C16_Witness ==
    /\ inbound /\ inWindowOnly
    /\ op = "set_authenticated_seqno"
    /\ arg = last_seqno
    /\ Cardinality(touched) >= 2
    /\ Cardinality(touched) < window_size
    /\ \E t \in committed : t < arg /\ Marked(t)

(* ----------------------------------------------------------------- C17 -- *)

\* C17: in every reachable state of an inbound context, whatever seqnos were
\* passed to verify_seqno and set_authenticated_seqno, the window bit at
\* seqno_index is 1 if last_seqno > 0.
C17_HighWaterMarkIsMarked ==
    (inbound /\ last_seqno > 0) => seqno_index \in WindowBits

\* the window has advanced after a commit below the window
C17_Witness ==
    /\ inbound
    /\ ~inWindowOnly
    /\ op = "set_authenticated_seqno"
    /\ arg = last_seqno
    /\ changed
    /\ seqno_index \in WindowBits

(* ----------------------------------------------------------------- C18 -- *)

\* C18: a step set_authenticated_seqno(s) of an inbound context with s >= 1
\* and last_seqno - s >= window_size leaves verify_seqno(t) unchanged for
\* every seqno t other than s.
C18_BelowWindowCommitIsHarmless ==
    [][ \A s \in {arg'} :
          ( /\ inbound
            /\ op' = "set_authenticated_seqno"
            /\ s >= 1
            /\ last_seqno - s >= window_size )
          => \A t \in Seqnos \ {s} :
                verify_seqno(t)' = verify_seqno(t) ]_vars

(* ----------------------------------------------------------------- C19 -- *)

\* C19: on an inbound context seqno_index is in 0 .. window_size - 1, and
\* every window bit index the last verify_seqno or set_authenticated_seqno
\* read or wrote is in 0 .. window_size - 1 and lies in an allocated byte of
\* the window buffer.
C19_WindowIndexSafety ==
    inbound =>
        /\ seqno_index \in 0 .. (window_size - 1)
        /\ \A k \in touched :
              /\ k \in 0 .. (window_size - 1)
              /\ (k \div CHAR_BIT) \in DOMAIN window

\* verify_seqno read the bit of a seqno whose slot index it computed by a
\* subtraction that wrapped below 0
C19_Witness ==
    /\ inbound
    /\ op = "verify_seqno"
    /\ touched # {}
    /\ seqno_index - (last_seqno - arg) < 0
    /\ touched = {SlotOf(arg)}

(* ----------------------------------------------------------------- C12 -- *)

\* the call c fails: an algorithm is unsupported, the crypter or the signer
\* cannot be created, or a key is rejected
C12_Fails(c) ==
    \/ ~EncSupported(c.enc_alg)
    \/ ~c.create_crypter
    \/ ~c.enc_set_key
    \/ ~IntSupported(c.int_alg)
    \/ ~c.create_signer
    \/ ~c.int_set_key

\* C12: when esp_context_create has returned, it returned no context exactly
\* if the encryption algorithm is unsupported, the crypter cannot be created,
\* the encryption key is rejected, the integrity algorithm is unsupported,
\* the signer cannot be created or the integrity key is rejected; then the
\* context allocation was acquired once, no resource more than once, each as
\* often released as acquired, and no handle is left; a context returned
\* holds a keyed crypter and a keyed signer, none of its resources released.
C12_ConstructionIsTotal ==
    op = "create" =>
        /\ result \in {"NULL", "context"}
        /\ (result = "NULL") = C12_Fails(call)
        /\ result = "NULL" =>
              /\ heap["this"].acquired = 1
              /\ \A r \in Resources :
                    /\ heap[r].acquired <= 1
                    /\ heap[r].released = heap[r].acquired
              /\ crypter = "NULL" /\ signer = "NULL"
              /\ window = <<>>
        /\ result = "context" =>
              /\ crypter = "keyed" /\ signer = "keyed"
              /\ \A r \in Resources : heap[r].released = 0
              /\ \A r \in {"this", "crypter", "signer"} : heap[r].acquired = 1
              /\ heap["window"].acquired = IF call.inbound THEN 1 ELSE 0
              /\ inbound = call.inbound
              /\ window = new_window(call.inbound, ESP_DEFAULT_WINDOW_SIZE)

\* the call failed at the integrity key, holding the crypter and the signer
C12_Witness ==
    /\ op = "create"
    /\ result = "NULL"
    /\ EncSupported(call.enc_alg) /\ call.create_crypter /\ call.enc_set_key
    /\ IntSupported(call.int_alg) /\ call.create_signer
    /\ ~call.int_set_key
    /\ heap["crypter"].released = 1
    /\ heap["signer"].released = 1

(* ----------------------------------------------------------------- C13 -- *)

\* C13: a step of networkChanged that invokes the callback is the only
\* invocation of its event, invokes a callback that a successful
\* add_connectivity_cb registered and for which since then neither
\* remove_connectivity_cb nor destroy has returned, and is taken while the
\* caller is in no critical section of add_connectivity_cb,
\* remove_connectivity_cb or destroy.
C13_CallbackIsSerialized ==
    [][ (did'.op = "callback" /\ invocations' = invocations + 1) =>
            /\ invocations' <= 1
            /\ did'.cb \in active
            /\ ~freed
            /\ ~InCriticalSection ]_vars

\* while the object is not freed, every invocation is the only one of its
\* event, of a callback registered and not removed, outside the caller's
\* critical sections
CallbackIsSerializedUntilFreed ==
    [][ (did'.op = "callback" /\ invocations' = invocations + 1 /\ ~freed) =>
            /\ invocations' <= 1
            /\ did'.cb \in active
            /\ ~InCriticalSection ]_vars

(* ----------------------------------------------------------------- C20 -- *)

\* C20: connectivity_cb holds one callback or none. The body of
\* add_connectivity_cb, run while a callback is registered, leaves cb and
\* data unchanged and does not call Register; run while none is registered,
\* it leaves none registered if the lookup of Register fails or Register
\* throws, and stores its cb and data otherwise. The body of
\* remove_connectivity_cb, run with a callback other than the registered
\* one, leaves cb and data unchanged and does not call Unregister.
C20_SingleCallback ==
    [][ /\ connectivity_cb'.cb \in Callbacks \cup {NULL}
        /\ (pc[Caller] = "add_body" /\ pc'[Caller] = "add_unlock") =>
              /\ connectivity_cb.cb # NULL =>
                    /\ connectivity_cb' = connectivity_cb
                    /\ ~did'.register
              /\ (connectivity_cb.cb = NULL
                    /\ (~did'.lookup \/ did'.exception)) =>
                    connectivity_cb'.cb = NULL
              /\ (connectivity_cb.cb = NULL
                    /\ did'.lookup /\ ~did'.exception) =>
                    /\ connectivity_cb' = [cb |-> args.cb, data |-> args.data]
                    /\ did'.register
        /\ (pc[Caller] = "remove_body" /\ pc'[Caller] = "remove_unlock"
              /\ args.cb # connectivity_cb.cb) =>
              /\ connectivity_cb' = connectivity_cb
              /\ ~did'.unregister ]_vars

\* add_connectivity_cb was called with another callback while one is
\* registered, and left it registered
C20_Witness ==
    /\ did.op = "add"
    /\ pc[Caller] = "add_unlock"
    /\ connectivity_cb.cb \in Callbacks
    /\ connectivity_cb.cb # did.cb
    /\ ~did.register

(* ----------------------------------------------------------------- C21 -- *)

\* C21: whenever the caller is in no method of the network manager
\* (get_local_address, add_connectivity_cb, remove_connectivity_cb, destroy
\* or network_manager_create has returned), it has called
\* androidjni_detach_thread as often as androidjni_attach_thread and does not
\* hold the mutex.
C21_OperationsReleaseWhatTheyAcquire ==
    pc[Caller] \in {"idle", "done"} =>
        /\ attached[Caller] = 0
        /\ mutex # Caller

\* a step changes the caller's count of attach calls less detach calls only
\* in the body of add_connectivity_cb whose lookup of Register failed
AttachLeaksOnlyInAdd ==
    [][ attached'[Caller] # attached[Caller] =>
            /\ pc[Caller] = "add_body"
            /\ connectivity_cb.cb = NULL
            /\ ~did'.lookup
            /\ attached'[Caller] = attached[Caller] + 1 ]_vars

====
